---- MODULE Spec2Model ----
(***************************************************************************)
(* Multi-tenant organization service (app/services.py, app/main.py,        *)
(* app/routes.py, app/utils.py).                                           *)
(*                                                                         *)
(* The directory (master_db.organizations), the physical collections of    *)
(* every database, the tenant connection cache and the position of every   *)
(* in-flight request are the state.  Every `await` of a handler is one     *)
(* step, so that concurrent requests interleave exactly where the asyncio  *)
(* event loop can switch between them.                                     *)
(***************************************************************************)
EXTENDS Integers, Sequences, FiniteSets, Bags, TLC

\* ------------------------------------------------------------------ bounds
NumProcs == 2        \* request slots: requests in flight at once
MaxOps == 2          \* service calls started in one behaviour
MaxDocWrites == 1    \* tenant document writes in one behaviour
MaxUpdateFields == 2 \* optional fields given in one update request
MaxManagerCalls == 4 \* calls made to the connection manager alone in one behaviour

\* --------------------------------------------------------- program constants
RenameThreshold == 10000     \* services.py:576 / :603
MigrationBatchSize == 1000   \* services.py:148

\* ------------------------------------------------------------------ inputs
\* Strings the code inspects character by character are tuples of characters.
None == <<>>                       \* None and "" are both falsy in the code
Names == { <<"A", "b">>, <<"a", "b">>, <<"c", " ", "d">> }
Emails == { "a@x.io", "organization_name@x.io" }
NoEmail == ""
Passwords == { <<"Passw0rd">> }
NewPasswords == { <<"N3wPassw0rd">> }
NoPassword == <<>>
Uris == { <<"mongodb://u">> }
DbNames == { <<"d">> }
Procs == 1 .. NumProcs
\* The email of the request in slot p of N simultaneous requests
\* (test_concurrent_organization_creation: f"test{task name}@example.com").
TaskEmail(p) == <<"test1@x.io", "test2@x.io", "test3@x.io", "test4@x.io">>[p]
DocAmounts == { 1, RenameThreshold }

\* ------------------------------------------------------------ app/utils.py
LowerAlnum == { "a", "b", "c", "d", "0", "1" }
WhiteSpace == { " " }

LowerChar(c) ==
    CASE c = "A" -> "a"
      [] c = "B" -> "b"
      [] c = "C" -> "c"
      [] c = "D" -> "d"
      [] OTHER -> c

RECURSIVE StripLeft(_, _)
StripLeft(s, chars) ==
    IF s # <<>> /\ Head(s) \in chars THEN StripLeft(Tail(s), chars) ELSE s

RECURSIVE StripRight(_, _)
StripRight(s, chars) ==
    IF s # <<>> /\ s[Len(s)] \in chars
    THEN StripRight(SubSeq(s, 1, Len(s) - 1), chars)
    ELSE s

Strip(s, chars) == StripRight(StripLeft(s, chars), chars)

\* re.sub(r'[^a-z0-9]+', '_', s): every maximal run of other characters
\* becomes one underscore.
RECURSIVE SkipNonAlnum(_)
SkipNonAlnum(s) ==
    IF s # <<>> /\ Head(s) \notin LowerAlnum THEN SkipNonAlnum(Tail(s)) ELSE s

RECURSIVE SubNonAlnum(_)
SubNonAlnum(s) ==
    IF s = <<>> THEN <<>>
    ELSE IF Head(s) \in LowerAlnum
         THEN <<Head(s)>> \o SubNonAlnum(Tail(s))
         ELSE <<"_">> \o SubNonAlnum(SkipNonAlnum(Tail(s)))

slugify(name) ==
    LET lowered == [i \in 1 .. Len(name) |-> LowerChar(name[i])]
        s == Strip(lowered, WhiteSpace)
    IN  Strip(SubNonAlnum(s), { "_" })

CollectionNameOf(name) == <<"o", "r", "g", "_">> \o slugify(name)

\* ------------------------------------------------------------- app/auth.py
\* bcrypt is one-way: the hash is a value distinct from every plaintext, and
\* verify accepts exactly the plaintext it was made from.
\* Mutant: the password is stored as given.
hash_password_plaintext(password) == password

hash_password(password) == <<"$2b$">> \o password

\* Mutant: every password verifies.
verify_password_accepts_all(plain, hashed) == TRUE

verify_password(plain, hashed) == hashed = hash_password(plain)

\* The payload create_access_token signs (routes.py:442-446); decode_token
\* returns the payload of a token that was signed with SECRET_KEY.
NoToken == [sub |-> "", org_id |-> 0, org_name |-> <<>>]
TokenPayload(authres) ==
    [sub |-> authres.email, org_id |-> authres.id, org_name |-> authres.organization_name]

\* --------------------------------------------------------------- app/db.py
DefaultServer == <<"MONGO_URI">>
MASTER_DB_NAME == <<"master_db">>
master_db == <<DefaultServer, MASTER_DB_NAME>>

\* ---------------------------------------------------------------- storage
\* A collection is a bag of documents.  A document is <<owner, kind>>: the
\* sentinel {"_init": True} is <<0, "init">>; a tenant document written by
\* the tenant whose record has _id i is <<i, "orig">> while it keeps the _id
\* it was written with and <<i, "copy">> once a copy (pop("_id") + insert)
\* gave it a new _id.
InitDoc == <<0, "init">>
DocsOf(doc, n) == [d \in {doc} |-> n]

CollKey(db, coll) == <<db[1], db[2], coll>>

InsertDocs(c, k, b) ==
    IF k \in DOMAIN c THEN [c EXCEPT ![k] = @ (+) b] ELSE c @@ (k :> b)

DeleteInitDocs(c, k) ==
    IF k \in DOMAIN c
    THEN [c EXCEPT ![k] = [d \in (DOMAIN @) \ {InitDoc} |-> @[d]]]
    ELSE c

CreateCollectionIndex(c, k) ==
    IF k \in DOMAIN c THEN c ELSE c @@ (k :> EmptyBag)

DropCollection(c, k) == [x \in (DOMAIN c) \ {k} |-> c[x]]

CountDocuments(c, k) == IF k \in DOMAIN c THEN BagCardinality(c[k]) ELSE 0

VARIABLES
    phase,           \* "stopped" | "running" | "shutdown": the application lifespan
    indexes,         \* the fields of organizations that carry a unique index
    orgs,            \* master_db.organizations: the set of directory records
    colls,           \* every physical collection: <<server, db, name>> -> bag of documents
    tenant_clients,  \* DatabaseConnectionManager._tenant_clients: cache_key -> uri of the client
    client_events,   \* bag of <<event, cache_key or uri>>: the get_tenant_db calls
                     \* ("resolved"), the AsyncIOMotorClient objects constructed
                     \* ("created", "test_created") and their close() calls
                     \* ("closed", "close_failed", "test_closed")
    pc,              \* per request slot: the await the call is suspended at
    op,              \* per request slot: arguments, locals and result of the call
    serial,          \* the client awaits every response before its next request
    tokens,          \* the payloads of the access tokens admin_login has issued
    hist,            \* serial client: the storage at the start of the latest call
    nextId,          \* next ObjectId
    opsStarted,
    docWrites

vars == <<phase, indexes, orgs, colls, tenant_clients, client_events, pc, op, serial, tokens,
          hist, nextId, opsStarted, docWrites>>

IdleOp ==
    [kind |-> "none", org_name |-> None, new_org_name |-> None,
     email |-> NoEmail, password |-> NoPassword, db_uri |-> None,
     db_name |-> None, doc |-> {}, doc_count |-> 0, result |-> "none",
     target |-> "none",     \* what the probed server was found to be
     left |-> EmptyBag,     \* migration: the documents the cursor has not returned yet
     migrated |-> 0,        \* migrated_docs
     failed |-> 0,          \* failed_docs
     fault |-> "none",      \* the storage operation that raised during the call
     token |-> NoToken,     \* the payload of the bearer token of the request
     callback |-> FALSE,    \* migration: a progress callback was given
     reports |-> <<>>]      \* migration: the arguments of the callback's calls

NoHist == [colls |-> <<>>, orgs |-> {}]

HistStart == IF serial THEN [colls |-> colls, orgs |-> orgs] ELSE NoHist

Free(p) == pc[p] \in { "idle", "done" }

\* A request takes the lowest free slot; a serial client has none in flight.
CanStart(p) ==
    /\ phase = "running"
    /\ opsStarted < MaxOps
    /\ Free(p)
    /\ \A q \in Procs : q < p => ~Free(q)
    /\ serial => \A q \in Procs : Free(q)

Finish(p, result) ==
    /\ pc' = [pc EXCEPT ![p] = "done"]
    /\ op' = [op EXCEPT ![p].result = result]

Goto(p, label) ==
    /\ pc' = [pc EXCEPT ![p] = label]
    /\ UNCHANGED op

\* A fresh database and an application that has not started; the client
\* awaits every response.
Init ==
    /\ phase = "stopped"
    /\ indexes = {}
    /\ orgs = {}
    /\ colls = <<>>
    /\ tenant_clients = <<>>
    /\ client_events = EmptyBag
    /\ tokens = {}
    /\ pc = [p \in Procs |-> "idle"]
    /\ op = [p \in Procs |-> IdleOp]
    /\ serial = TRUE
    /\ hist = NoHist
    /\ nextId = 1
    /\ opsStarted = 0
    /\ docWrites = 0

\* ------------------------------------------------- directory (unique indexes)
NameTaken(name) == \E r \in orgs : r.organization_name = name
EmailTaken(email) == \E r \in orgs : r.email = email

\* Mutant: no unique index is enforced.
DuplicateKeys_none(rec, others) == {}

\* Mutant: only the admin email carries a unique index.
DuplicateKeys_email_only(rec, others) ==
    { f \in indexes : f = "admin.email" /\ \E r \in others : r.email = rec.email }

\* The fields on which storing `rec` violates a unique index, given the
\* other records.
DuplicateKeys(rec, others) ==
    { f \in indexes :
        \/ f = "organization_name"
            /\ \E r \in others : r.organization_name = rec.organization_name
        \/ f = "admin.email" /\ \E r \in others : r.email = rec.email }

\* str(DuplicateKeyError): "E11000 duplicate key error collection: ... index:
\* <index name> dup key: { <field>: "<value>" }".  The message is the tuple of
\* its variable parts; the value is the colliding name or email.
IndexName(f) ==
    IF f = "organization_name" THEN "idx_organization_name_unique"
    ELSE "idx_admin_email_unique"

DuplicateKeyMessage(f, rec) ==
    <<IndexName(f), f, IF f = "organization_name" THEN "<name>" ELSE rec.email>>

\* needle in text, for the texts that occur in a message.
TextContains(text, needle) ==
    \/ text = needle
    \/ needle = "organization_name"
        /\ text \in { "idx_organization_name_unique", "organization_name@x.io" }

InMessage(needle, msg) == \E i \in 1 .. Len(msg) : TextContains(msg[i], needle)

\* services.py:472-477: which ValueError the DuplicateKeyError becomes.
ConflictResult(msg) ==
    IF InMessage("organization_name", msg) THEN "conflict_name"
    ELSE IF InMessage("admin.email", msg) THEN "conflict_email"
    ELSE "conflict_other"

\* ------------------------------------------------- DatabaseConnectionManager
\* What the server a probe addresses turns out to be.
TargetStates == { "up", "unreachable", "auth_failed" }

\* Mutant: an authentication failure leaves test_connection as an exception.
test_connection_auth_raises(target) ==
    IF target = "up" THEN "True"
    ELSE IF target = "auth_failed" THEN "raise"
    ELSE "False"

\* test_connection: "True" after the ping; every Exception of the client
\* constructor or of the ping is caught and becomes "False".
test_connection(target) == IF target = "up" THEN "True" ELSE "False"

\* The client test_connection constructs, and test_client.close(): the
\* statement after the ping, reached only when the ping returned.
TestClientEventsOf(target, db_uri) ==
    DocsOf(<<"test_created", db_uri>>, 1)
    (+) (IF target = "up" THEN DocsOf(<<"test_closed", db_uri>>, 1) ELSE EmptyBag)

\* The continuation of a handler after its probe.
AfterProbe(p, target, label, error) ==
    LET o == [op[p] EXCEPT !.target = target]
        connection_valid == test_connection(target)
    IN  /\ client_events' = client_events (+) TestClientEventsOf(target, op[p].db_uri)
        /\ IF connection_valid = "True"
           THEN /\ pc' = [pc EXCEPT ![p] = label]
                /\ op' = [op EXCEPT ![p] = o]
           ELSE /\ pc' = [pc EXCEPT ![p] = "done"]
                /\ op' = [op EXCEPT ![p] =
                           [o EXCEPT !.result = IF connection_valid = "False"
                                                THEN error ELSE "error"]]

CacheKey(db_uri, db_name) == db_uri \o <<"_">> \o db_name

UsesTenantClient(doc) ==
    doc.db_type = "dedicated" /\ doc.conn_uri # None /\ doc.conn_db # None

\* get_tenant_db: the cache after the call ...
TenantClientsAfter(tc, doc) ==
    IF UsesTenantClient(doc) /\ CacheKey(doc.conn_uri, doc.conn_db) \notin DOMAIN tc
    THEN tc @@ (CacheKey(doc.conn_uri, doc.conn_db) :> doc.conn_uri)
    ELSE tc

\* Mutant: every call constructs a client.
ClientEventsOf_uncached(tc, doc) ==
    IF UsesTenantClient(doc)
    THEN DocsOf(<<"resolved", CacheKey(doc.conn_uri, doc.conn_db)>>, 1)
         (+) DocsOf(<<"created", CacheKey(doc.conn_uri, doc.conn_db)>>, 1)
    ELSE EmptyBag

\* ... the calls that reached the cache and the clients constructed ...
ClientEventsOf(tc, doc) ==
    IF UsesTenantClient(doc)
    THEN DocsOf(<<"resolved", CacheKey(doc.conn_uri, doc.conn_db)>>, 1)
         (+) (IF CacheKey(doc.conn_uri, doc.conn_db) \notin DOMAIN tc
              THEN DocsOf(<<"created", CacheKey(doc.conn_uri, doc.conn_db)>>, 1)
              ELSE EmptyBag)
    ELSE EmptyBag

\* ... and the database handle it returns: <<server, database name>>.
get_tenant_db(tc, doc) ==
    IF UsesTenantClient(doc)
    THEN <<TenantClientsAfter(tc, doc)[CacheKey(doc.conn_uri, doc.conn_db)], doc.conn_db>>
    ELSE <<DefaultServer, doc.db_name>>

\* The collection a record names: its partition.
PartitionKey(doc) == CollKey(get_tenant_db(tenant_clients, doc), doc.collection_name)

\* close_all_connections over the cache tc, when client.close() raises for
\* the clients of the keys in `failing`: every entry is attempted, each
\* failure is caught and logged, and the cache is cleared.
RECURSIVE CloseEvents(_, _)
CloseEvents(keys, failing) ==
    IF keys = {} THEN EmptyBag
    ELSE LET k == CHOOSE x \in keys : TRUE
         IN  DocsOf(<<IF k \in failing THEN "close_failed" ELSE "closed", k>>, 1)
             (+) CloseEvents(keys \ {k}, failing)

\* Mutant: client.close() is called outside a try; the first failure leaves
\* the loop and the function.
close_all_connections_unguarded(tc, failing) ==
    IF failing = {}
    THEN [cache |-> <<>>, events |-> CloseEvents(DOMAIN tc, {}), raised |-> FALSE]
    ELSE [cache |-> tc,
          events |-> DocsOf(<<"close_failed", CHOOSE k \in failing : TRUE>>, 1),
          raised |-> TRUE]

close_all_connections(tc, failing) ==
    [cache |-> <<>>, events |-> CloseEvents(DOMAIN tc, failing), raised |-> FALSE]

get_connection_stats(tc) ==
    [total_connections |-> Cardinality(DOMAIN tc), connection_keys |-> DOMAIN tc]

\* ------------------------------------------------------------ read handlers
organization_exists(name) == \E r \in orgs : r.organization_name = name

\* find_one: the documents a call may get (None when the set is empty).
get_organization(name) == { r \in orgs : r.organization_name = name }

\* ------------------------------------------------------ app/main.py lifespan
HasDuplicate(f) ==
    \E r1, r2 \in orgs :
        /\ r1 # r2
        /\ IF f = "organization_name"
           THEN r1.organization_name = r2.organization_name
           ELSE r1.email = r2.email

\* ensure_indexes: the two unique create_index calls in order; a unique index
\* cannot be built over duplicates, and the first failure ends the function.
EnsuredIndexes ==
    IF "organization_name" \notin indexes /\ HasDuplicate("organization_name")
    THEN indexes
    ELSE IF "admin.email" \notin indexes /\ HasDuplicate("admin.email")
         THEN indexes \cup { "organization_name" }
         ELSE { "organization_name", "admin.email" }

LifespanStartup ==
    /\ phase = "stopped"
    /\ phase' = "running"
    /\ indexes' = EnsuredIndexes
    /\ UNCHANGED <<orgs, colls, tenant_clients, client_events, pc, op, serial, tokens, hist, nextId,
                   opsStarted, docWrites>>

\* Startup while the database is unreachable: ensure_indexes raises, the
\* lifespan logs a warning and the application serves requests all the same.
LifespanStartupIndexFailure ==
    /\ phase = "stopped"
    /\ phase' = "running"
    /\ UNCHANGED <<indexes, orgs, colls, tenant_clients, client_events, pc, op, serial, tokens, hist,
                   nextId, opsStarted, docWrites>>

\* Shutdown after the requests in flight have drained.  The lifespan calls
\* organization_service.close_all_connections(), an attribute the service
\* object does not have: the AttributeError is caught and logged, and the
\* connection cache is left as it is.
LifespanShutdown ==
    /\ phase = "running"
    /\ \A p \in Procs : Free(p)
    /\ phase' = "shutdown"
    /\ UNCHANGED <<indexes, orgs, colls, tenant_clients, client_events, pc, op, serial, tokens, hist,
                   nextId, opsStarted, docWrites>>

\* ------------------------------------------------------------ tenant traffic
\* A tenant stores n documents in its partition, through the handle its
\* record resolves to.  The tenants of a serial client write between the
\* calls, after the response of the latest call has been consumed.
TenantWrite ==
    /\ docWrites < MaxDocWrites
    /\ serial => \A q \in Procs : Free(q)
    /\ \E r \in orgs, n \in DocAmounts :
        colls' = InsertDocs(colls, PartitionKey(r), DocsOf(<<r.id, "orig">>, n))
    /\ docWrites' = docWrites + 1
    /\ pc' = [q \in Procs |-> IF pc[q] = "done" THEN "idle" ELSE pc[q]]
    /\ op' = [q \in Procs |-> IF pc[q] = "done" THEN IdleOp ELSE op[q]]
    /\ hist' = NoHist
    /\ UNCHANGED <<phase, indexes, orgs, tenant_clients, client_events, serial, tokens, nextId, opsStarted>>

\* ------------------------------------------------------ create_organization
IsDedicatedRequest(o) == o.db_uri # None /\ o.db_name # None

\* org_metadata as create_organization builds it (services.py:361-385, 420-421).
OrgMetadata(o, id) ==
    [id |-> id,
     organization_name |-> o.org_name,
     collection_name |-> CollectionNameOf(o.org_name),
     email |-> o.email,
     password_hash |-> hash_password(o.password),
     db_type |-> IF IsDedicatedRequest(o) THEN "dedicated" ELSE "shared",
     db_name |-> IF IsDedicatedRequest(o) THEN o.db_name ELSE MASTER_DB_NAME,
     conn_uri |-> IF IsDedicatedRequest(o) THEN o.db_uri ELSE None,
     conn_db |-> IF IsDedicatedRequest(o) THEN o.db_name ELSE None,
     status |-> "active"]

\* The database in which create_organization initializes the collection.
CreateDb(o) == IF IsDedicatedRequest(o) THEN <<o.db_uri, o.db_name>> ELSE master_db

CreateKey(o) == CollKey(CreateDb(o), CollectionNameOf(o.org_name))

\* The call and its synchronous prefix, up to the first await.  db_uri and
\* db_name are read only when both are given (services.py:371).
CreateRequest(p, names, emails) ==
    /\ CanStart(p)
    /\ \E name \in names, email \in emails, password \in Passwords,
          uri \in Uris \cup {None}, dbn \in DbNames \cup {None} :
        LET both == uri # None /\ dbn # None
            o == [IdleOp EXCEPT !.kind = "create", !.org_name = name,
                                !.email = email, !.password = password,
                                !.db_uri = IF both THEN uri ELSE None,
                                !.db_name = IF both THEN dbn ELSE None]
        IN  /\ op' = [op EXCEPT ![p] = o]
            /\ pc' = [pc EXCEPT ![p] =
                        IF IsDedicatedRequest(o) THEN "c_probe" ELSE "c_init_insert"]
    /\ opsStarted' = opsStarted + 1
    /\ hist' = HistStart
    /\ UNCHANGED <<phase, indexes, orgs, colls, tenant_clients, client_events, serial, tokens, nextId,
                   docWrites>>

CreateCall(p) == CreateRequest(p, Names, Emails)

\* Mutant: the connection is found invalid after the collection was initialized.
CreateProbe_after_init(p) ==
    /\ pc[p] = "c_probe"
    /\ \/ /\ Goto(p, "c_init_insert")
          /\ UNCHANGED colls
       \/ /\ colls' = InsertDocs(colls, CreateKey(op[p]), DocsOf(InitDoc, 1))
          /\ Finish(p, "connection_error")
    /\ UNCHANGED <<phase, indexes, orgs, tenant_clients, client_events, serial, tokens, hist,
                   nextId, opsStarted, docWrites>>

\* await self.db_manager.test_connection(db_uri, db_name)
CreateProbe(p) ==
    /\ pc[p] = "c_probe"
    /\ \E target \in TargetStates :
        AfterProbe(p, target, "c_init_insert", "connection_error")
    /\ UNCHANGED <<phase, indexes, orgs, colls, tenant_clients, serial, tokens, hist,
                   nextId, opsStarted, docWrites>>

\* await col.insert_one({"_init": True, ...})
CreateInitInsert(p) ==
    /\ pc[p] = "c_init_insert"
    /\ colls' = InsertDocs(colls, CreateKey(op[p]), DocsOf(InitDoc, 1))
    /\ Goto(p, "c_init_delete")
    /\ UNCHANGED <<phase, indexes, orgs, tenant_clients, client_events, serial, tokens, hist, nextId,
                   opsStarted, docWrites>>

\* await col.delete_many({"_init": True})
CreateInitDelete(p) ==
    /\ pc[p] = "c_init_delete"
    /\ colls' = DeleteInitDocs(colls, CreateKey(op[p]))
    /\ Goto(p, "c_init_index")
    /\ UNCHANGED <<phase, indexes, orgs, tenant_clients, client_events, serial, tokens, hist, nextId,
                   opsStarted, docWrites>>

\* await col.create_index("created_at")
CreateInitIndex(p) ==
    /\ pc[p] = "c_init_index"
    /\ colls' = CreateCollectionIndex(colls, CreateKey(op[p]))
    /\ Goto(p, "c_insert")
    /\ UNCHANGED <<phase, indexes, orgs, tenant_clients, client_events, serial, tokens, hist, nextId,
                   opsStarted, docWrites>>

\* A step of the dedicated initialization raises (the server has become
\* unreachable): except Exception -> ValueError("Failed to initialize ...").
CreateInitFailure(p) ==
    /\ pc[p] \in { "c_init_insert", "c_init_delete", "c_init_index" }
    /\ IsDedicatedRequest(op[p])
    /\ Finish(p, "init_error")
    /\ UNCHANGED <<phase, indexes, orgs, colls, tenant_clients, client_events, serial, tokens, hist,
                   nextId, opsStarted, docWrites>>

\* The cleanup of the except DuplicateKeyError branch (services.py:467-469).
RollbackNeeded(rec) == rec.db_type = "shared"

\* await self.org_collection.insert_one(org_metadata)
CreateInsertMetadata(p) ==
    /\ pc[p] = "c_insert"
    /\ LET rec == OrgMetadata(op[p], nextId)
           dup == DuplicateKeys(rec, orgs)
       IN  \/ /\ dup = {}
              /\ orgs' = orgs \cup {rec}
              /\ nextId' = nextId + 1
              /\ Finish(p, "ok")
           \/ \E f \in dup :
                /\ UNCHANGED <<orgs, nextId>>
                /\ IF RollbackNeeded(rec)
                   THEN /\ pc' = [pc EXCEPT ![p] = "c_rollback"]
                        /\ op' = [op EXCEPT ![p].result =
                                    ConflictResult(DuplicateKeyMessage(f, rec))]
                   ELSE Finish(p, ConflictResult(DuplicateKeyMessage(f, rec)))
    /\ UNCHANGED <<phase, indexes, colls, tenant_clients, client_events, serial, tokens, hist, opsStarted,
                   docWrites>>

\* await master_db.drop_collection(collection_name), then raise ValueError
CreateRollback(p) ==
    /\ pc[p] = "c_rollback"
    /\ colls' = DropCollection(colls, CollKey(master_db, CollectionNameOf(op[p].org_name)))
    /\ pc' = [pc EXCEPT ![p] = "done"]
    /\ UNCHANGED <<phase, indexes, orgs, tenant_clients, client_events, op, serial, tokens, hist, nextId,
                   opsStarted, docWrites>>

CreateStep(p) ==
    \/ CreateProbe(p)
    \/ CreateInitInsert(p)
    \/ CreateInitDelete(p)
    \/ CreateInitIndex(p)
    \/ CreateInitFailure(p)
    \/ CreateInsertMetadata(p)
    \/ CreateRollback(p)

\* ------------------------------------------------------ update_organization
\* Mutant: the comparison with the current name is missing.
RenameRequested_any_name(o) == o.new_org_name # None

RenameRequested(o) == o.new_org_name # None /\ o.new_org_name # o.org_name

\* `updates` is not empty (services.py:669).
HasUpdates(o) ==
    \/ RenameRequested(o)
    \/ o.email # NoEmail \/ o.password # NoPassword
    \/ o.db_uri # None \/ o.db_name # None

TheDoc(o) == CHOOSE d \in o.doc : TRUE

\* current_db = self.db_manager.get_tenant_db(doc)
CurrentDb(o) == get_tenant_db(tenant_clients, TheDoc(o))
OldKey(o) == CollKey(CurrentDb(o), TheDoc(o).collection_name)
NewKey(o) == CollKey(CurrentDb(o), CollectionNameOf(o.new_org_name))

BagOf(c, k) == IF k \in DOMAIN c THEN c[k] ELSE EmptyBag

\* item.pop("_id", None): the copy of a document gets a new _id.
Copied(d) == IF d[2] = "orig" THEN <<d[1], "copy">> ELSE d

RECURSIVE AsCopies(_)
AsCopies(b) ==
    IF DOMAIN b = {} THEN EmptyBag
    ELSE LET d == CHOOSE x \in DOMAIN b : TRUE
         IN  DocsOf(Copied(d), b[d]) (+) AsCopies([x \in (DOMAIN b) \ {d} |-> b[x]])

InsertMany(c, k, b) == IF DOMAIN b = {} THEN c ELSE InsertDocs(c, k, b)

\* The label after the relocation block: the admin block is synchronous.
AfterRelocation(o) ==
    IF o.db_uri # None THEN "u_probe"
    ELSE IF HasUpdates(o) THEN "u_apply"
    ELSE "done"

Advance(p, o, label) ==
    /\ pc' = [pc EXCEPT ![p] = label]
    /\ op' = [op EXCEPT ![p] = IF label = "done" THEN [o EXCEPT !.result = "ok"] ELSE o]

\* The optional fields an update request gives.
FieldsGiven(new, email, password, uri, dbn) ==
    (IF new # None THEN 1 ELSE 0) + (IF email # NoEmail THEN 1 ELSE 0)
    + (IF password # NoPassword THEN 1 ELSE 0) + (IF uri # None THEN 1 ELSE 0)
    + (IF dbn # None THEN 1 ELSE 0)

UpdateRequest(p, news) ==
    /\ CanStart(p)
    /\ \E name \in Names, new \in news, email \in Emails \cup {NoEmail},
          password \in NewPasswords \cup {NoPassword},
          uri \in Uris \cup {None}, dbn \in DbNames \cup {None} :
        /\ FieldsGiven(new, email, password, uri, dbn) <= MaxUpdateFields
        /\ op' = [op EXCEPT ![p] =
                    [IdleOp EXCEPT !.kind = "update", !.org_name = name,
                                   !.new_org_name = new, !.email = email,
                                   !.password = password, !.db_uri = uri,
                                   !.db_name = dbn]]
        /\ pc' = [pc EXCEPT ![p] = "u_find"]
    /\ opsStarted' = opsStarted + 1
    /\ hist' = HistStart
    /\ UNCHANGED <<phase, indexes, orgs, colls, tenant_clients, client_events, serial, tokens, nextId,
                   docWrites>>

UpdateCall(p) == UpdateRequest(p, Names \cup {None})

\* Mutant: update_one(..., upsert=True) semantics, a missing organization
\* is written instead of reported.
UpdateFind_upsert(p) ==
    /\ pc[p] = "u_find"
    /\ \/ /\ get_organization(op[p].org_name) = {}
          /\ orgs' = orgs \cup {OrgMetadata(op[p], nextId)}
          /\ nextId' = nextId + 1
          /\ Finish(p, "ok")
          /\ UNCHANGED <<tenant_clients, client_events>>
       \/ \E doc \in get_organization(op[p].org_name) :
            /\ tenant_clients' = TenantClientsAfter(tenant_clients, doc)
            /\ client_events' = client_events (+) ClientEventsOf(tenant_clients, doc)
            /\ Advance(p, [op[p] EXCEPT !.doc = {doc}],
                       IF RenameRequested(op[p]) THEN "u_count"
                       ELSE AfterRelocation(op[p]))
            /\ UNCHANGED <<orgs, nextId>>
    /\ UNCHANGED <<phase, indexes, colls, serial, tokens, hist, opsStarted, docWrites>>

\* doc = await self.org_collection.find_one({"organization_name": org_name})
UpdateFind(p) ==
    /\ pc[p] = "u_find"
    /\ \/ /\ get_organization(op[p].org_name) = {}
          /\ Finish(p, "not_found")
          /\ UNCHANGED <<tenant_clients, client_events>>
       \/ \E doc \in get_organization(op[p].org_name) :
            /\ tenant_clients' = TenantClientsAfter(tenant_clients, doc)
            /\ client_events' = client_events (+) ClientEventsOf(tenant_clients, doc)
            /\ Advance(p, [op[p] EXCEPT !.doc = {doc}],
                       IF RenameRequested(op[p]) THEN "u_count"
                       ELSE AfterRelocation(op[p]))
    /\ UNCHANGED <<phase, indexes, orgs, colls, serial, tokens, hist, nextId, opsStarted,
                   docWrites>>

\* The strategy chosen from same_db and doc_count (services.py:576-616).
RelocationStrategy(doc, doc_count) ==
    IF doc.db_type = "shared" /\ doc_count < RenameThreshold THEN "u_rename"
    ELSE IF doc_count >= RenameThreshold THEN "u_migrate"
    ELSE "u_copy"

\* doc_count = await old_coll.count_documents({})
UpdateCount(p) ==
    /\ pc[p] = "u_count"
    /\ LET n == CountDocuments(colls, OldKey(op[p]))
           strategy == RelocationStrategy(TheDoc(op[p]), n)
       IN  Advance(p, [op[p] EXCEPT !.doc_count = n,
                                    !.left = IF strategy = "u_migrate"
                                             THEN BagOf(colls, OldKey(op[p]))
                                             ELSE EmptyBag],
                   strategy)
    /\ UNCHANGED <<phase, indexes, orgs, colls, tenant_clients, client_events, serial, tokens, hist,
                   nextId, opsStarted, docWrites>>

\* renameCollection with dropTarget=False succeeds iff the source exists and
\* the target is another name that does not exist.
RenameSucceeds(c, old, new) == old \in DOMAIN c /\ new \notin DOMAIN c /\ old # new

\* await current_db.command("renameCollection", ...): on OperationFailure the
\* handler falls back to the document copy.  The server can reject the
\* command whatever the collections are: the handler sends it to the
\* tenant's database, and renameCollection is a command of the admin
\* database.  Only OperationFailure is caught: when the command fails with
\* another driver error (NotPrimaryError, AutoReconnect, NetworkTimeout) the
\* exception leaves the handler.
UpdateRename(p) ==
    /\ pc[p] = "u_rename"
    /\ LET old == OldKey(op[p])
           new == NewKey(op[p])
       IN  \/ /\ RenameSucceeds(colls, old, new)
              /\ colls' = DropCollection(colls, old) @@ (new :> colls[old])
              /\ Advance(p, op[p], AfterRelocation(op[p]))
           \/ /\ UNCHANGED colls
              /\ Goto(p, "u_fallback")
           \/ /\ UNCHANGED colls
              /\ pc' = [pc EXCEPT ![p] = "done"]
              /\ op' = [op EXCEPT ![p].result = "error", ![p].fault = "rename"]
    /\ UNCHANGED <<phase, indexes, orgs, tenant_clients, client_events, serial, tokens, hist, nextId,
                   opsStarted, docWrites>>

\* What a failing insert_many(ordered=False) of _copy_collection_documents
\* leaves in the target: nothing, or all documents but one.
PartialCopies(b) ==
    {EmptyBag} \cup
    { AsCopies(b) (-) DocsOf(Copied(d), 1) : d \in { x \in DOMAIN b : BagCardinality(b) > 1 } }

\* await self._copy_collection_documents(current_db, old, new): every batch
\* inserted, or an insert_many raises and the exception leaves the handler.
UpdateCopy(p) ==
    /\ pc[p] \in { "u_copy", "u_fallback" }
    /\ LET src == BagOf(colls, OldKey(op[p]))
       IN  \/ /\ colls' = InsertMany(colls, NewKey(op[p]), AsCopies(src))
              /\ Goto(p, "u_drop")
           \/ /\ src # EmptyBag
              /\ \E part \in PartialCopies(src) :
                    colls' = InsertMany(colls, NewKey(op[p]), part)
              /\ pc' = [pc EXCEPT ![p] = "done"]
              /\ op' = [op EXCEPT ![p].result = "error", ![p].fault = "insert"]
    /\ UNCHANGED <<phase, indexes, orgs, tenant_clients, client_events, serial, tokens, hist, nextId,
                   opsStarted, docWrites>>

\* The next batch_size documents of the cursor (all of them when fewer are left).
RECURSIVE TakeBatch(_, _)
TakeBatch(b, n) ==
    IF n = 0 \/ DOMAIN b = {} THEN EmptyBag
    ELSE LET d == CHOOSE x \in DOMAIN b : TRUE
             k == IF b[d] < n THEN b[d] ELSE n
         IN  DocsOf(d, k) (+) TakeBatch([x \in (DOMAIN b) \ {d} |-> b[x]], n - k)

\* One insert_many of migrate_collection_with_progress into the collection
\* `key`.  The batch is inserted and counted as migrated; a full batch is then
\* reported to the callback, the remainder after the loop is not.  Or the
\* insert raises, after inserting nothing or a part of the batch
\* (ordered=False): the whole batch is counted as failed and the loop goes on.
\* The cursor returns the documents that were there when the call counted them.
MigrateBatch(p, key, again, after) ==
    LET o == op[p]
        batch == TakeBatch(o.left, MigrationBatchSize)
        rest == o.left (-) batch
        size == BagCardinality(batch)
        full == size >= MigrationBatchSize
        label == IF DOMAIN rest = {} THEN after ELSE again
        result == IF label = "done" THEN "ok" ELSE o.result
    IN  /\ pc' = [pc EXCEPT ![p] = label]
        /\ \/ /\ colls' = InsertMany(colls, key, AsCopies(batch))
              /\ op' = [op EXCEPT ![p] =
                          [o EXCEPT !.left = rest, !.migrated = @ + size, !.result = result,
                                    !.reports = IF full /\ o.callback
                                                THEN Append(@, <<o.migrated + size, o.doc_count>>)
                                                ELSE @]]
           \/ /\ size > 0
              /\ \E part \in PartialCopies(batch) : colls' = InsertMany(colls, key, part)
              /\ op' = [op EXCEPT ![p] =
                          [o EXCEPT !.left = rest, !.failed = @ + size, !.result = result,
                                    !.fault = "insert"]]

\* await self.migration_service.migrate_collection_with_progress(current_db,
\* old_collection_name, new_collection_name), one insert_many at a time; the
\* handler gives no callback.
UpdateMigrate(p) ==
    /\ pc[p] = "u_migrate"
    /\ MigrateBatch(p, NewKey(op[p]), "u_migrate", "u_drop")
    /\ UNCHANGED <<phase, indexes, orgs, tenant_clients, client_events, serial, tokens, hist,
                   nextId, opsStarted, docWrites>>

\* Mutant: the source is kept when a batch has failed.
UpdateDrop_unless_failed(p) ==
    /\ pc[p] = "u_drop"
    /\ colls' = IF op[p].failed > 0 THEN colls ELSE DropCollection(colls, OldKey(op[p]))
    /\ Advance(p, op[p], AfterRelocation(op[p]))
    /\ UNCHANGED <<phase, indexes, orgs, tenant_clients, client_events, serial, tokens, hist,
                   nextId, opsStarted, docWrites>>

\* await current_db.drop_collection(old_collection_name)
UpdateDrop(p) ==
    /\ pc[p] = "u_drop"
    /\ colls' = DropCollection(colls, OldKey(op[p]))
    /\ Advance(p, op[p], AfterRelocation(op[p]))
    /\ UNCHANGED <<phase, indexes, orgs, tenant_clients, client_events, serial, tokens, hist, nextId,
                   opsStarted, docWrites>>

\* An operation on a dedicated server raises: the exception leaves the handler.
UpdateStorageFailure(p) ==
    /\ pc[p] \in { "u_count", "u_copy", "u_migrate", "u_drop" }
    /\ CurrentDb(op[p])[1] # DefaultServer
    /\ pc' = [pc EXCEPT ![p] = "done"]
    /\ op' = [op EXCEPT ![p].result = "error", ![p].fault = "storage"]
    /\ UNCHANGED <<phase, indexes, orgs, colls, tenant_clients, client_events, serial, tokens, hist,
                   nextId, opsStarted, docWrites>>

\* await self.db_manager.test_connection(db_uri, test_db_name)
UpdateProbe(p) ==
    /\ pc[p] = "u_probe"
    /\ \E target \in TargetStates : AfterProbe(p, target, "u_apply", "connection_error")
    /\ UNCHANGED <<phase, indexes, orgs, colls, tenant_clients, serial, tokens, hist,
                   nextId, opsStarted, docWrites>>

\* {"$set": updates} applied to the stored record r; `updates` was built from
\* the arguments and from doc, the copy read at the start (services.py:630-666).
UpdatedRecord(r, o, doc) ==
    [r EXCEPT
        !.organization_name = IF RenameRequested(o) THEN o.new_org_name ELSE @,
        !.collection_name = IF RenameRequested(o) THEN CollectionNameOf(o.new_org_name) ELSE @,
        !.email = IF o.email # NoEmail THEN o.email
                  ELSE IF o.password # NoPassword THEN doc.email ELSE @,
        !.password_hash = IF o.password # NoPassword THEN hash_password(o.password)
                          ELSE IF o.email # NoEmail THEN doc.password_hash ELSE @,
        !.db_type = IF o.db_uri # None THEN "dedicated" ELSE @,
        !.db_name = IF o.db_name # None THEN o.db_name ELSE @,
        !.conn_uri = IF o.db_uri # None THEN o.db_uri
                     ELSE IF o.db_name # None THEN doc.conn_uri ELSE @,
        !.conn_db = IF o.db_name # None THEN o.db_name
                    ELSE IF o.db_uri # None THEN doc.conn_db ELSE @]

\* await self.org_collection.update_one({"_id": doc["_id"]}, {"$set": updates})
UpdateApply(p) ==
    /\ pc[p] = "u_apply"
    /\ LET o == op[p]
           cur == { r \in orgs : r.id = TheDoc(o).id }
       IN  IF cur = {}
           THEN /\ UNCHANGED orgs
                /\ Finish(p, "ok")
           ELSE LET r == CHOOSE x \in cur : TRUE
                    new == UpdatedRecord(r, o, TheDoc(o))
                IN  IF DuplicateKeys(new, orgs \ {r}) # {}
                    THEN /\ UNCHANGED orgs
                         /\ Finish(p, "conflict_name")
                    ELSE /\ orgs' = (orgs \ {r}) \cup {new}
                         /\ Finish(p, "ok")
    /\ UNCHANGED <<phase, indexes, colls, tenant_clients, client_events, serial, tokens, hist, nextId,
                   opsStarted, docWrites>>

UpdateStep(p) ==
    \/ UpdateFind(p)
    \/ UpdateCount(p)
    \/ UpdateRename(p)
    \/ UpdateCopy(p)
    \/ UpdateMigrate(p)
    \/ UpdateDrop(p)
    \/ UpdateStorageFailure(p)
    \/ UpdateProbe(p)
    \/ UpdateApply(p)

\* ------------------------------------------------------ delete_organization
DeleteDb(doc) ==
    IF doc.db_type = "shared" THEN master_db ELSE get_tenant_db(tenant_clients, doc)

DeleteKey(o) == CollKey(DeleteDb(TheDoc(o)), TheDoc(o).collection_name)

DeleteCall(p) ==
    /\ CanStart(p)
    /\ \E name \in Names :
        /\ op' = [op EXCEPT ![p] = [IdleOp EXCEPT !.kind = "delete", !.org_name = name]]
        /\ pc' = [pc EXCEPT ![p] = "d_find"]
    /\ opsStarted' = opsStarted + 1
    /\ hist' = HistStart
    /\ UNCHANGED <<phase, indexes, orgs, colls, tenant_clients, client_events, serial, tokens, nextId,
                   docWrites>>

\* Mutant: find_one in place of find_one_and_delete.
DeleteFindOneAndDelete_find_only(p) ==
    /\ pc[p] = "d_find"
    /\ \/ /\ get_organization(op[p].org_name) = {}
          /\ Finish(p, "not_found")
          /\ UNCHANGED <<orgs, tenant_clients, client_events>>
       \/ \E doc \in get_organization(op[p].org_name) :
            /\ UNCHANGED orgs
            /\ tenant_clients' = IF doc.db_type = "shared" THEN tenant_clients
                                 ELSE TenantClientsAfter(tenant_clients, doc)
            /\ client_events' = IF doc.db_type = "shared" THEN client_events
                                ELSE client_events (+) ClientEventsOf(tenant_clients, doc)
            /\ Advance(p, [op[p] EXCEPT !.doc = {doc}], "d_list")
    /\ UNCHANGED <<phase, indexes, colls, serial, tokens, hist, nextId, opsStarted, docWrites>>

\* doc = await self.org_collection.find_one_and_delete({"organization_name": org_name})
DeleteFindOneAndDelete(p) ==
    /\ pc[p] = "d_find"
    /\ \/ /\ get_organization(op[p].org_name) = {}
          /\ Finish(p, "not_found")
          /\ UNCHANGED <<orgs, tenant_clients, client_events>>
       \/ \E doc \in get_organization(op[p].org_name) :
            /\ orgs' = orgs \ {doc}
            /\ tenant_clients' = IF doc.db_type = "shared" THEN tenant_clients
                                 ELSE TenantClientsAfter(tenant_clients, doc)
            /\ client_events' = IF doc.db_type = "shared" THEN client_events
                                ELSE client_events (+) ClientEventsOf(tenant_clients, doc)
            /\ Advance(p, [op[p] EXCEPT !.doc = {doc}], "d_list")
    /\ UNCHANGED <<phase, indexes, colls, serial, tokens, hist, nextId, opsStarted, docWrites>>

\* if colname in await db.list_collection_names()
DeleteList(p) ==
    /\ pc[p] = "d_list"
    /\ IF DeleteKey(op[p]) \in DOMAIN colls THEN Goto(p, "d_drop") ELSE Finish(p, "ok")
    /\ UNCHANGED <<phase, indexes, orgs, colls, tenant_clients, client_events, serial, tokens, hist,
                   nextId, opsStarted, docWrites>>

\* await db.drop_collection(colname); return True
DeleteDrop(p) ==
    /\ pc[p] = "d_drop"
    /\ colls' = DropCollection(colls, DeleteKey(op[p]))
    /\ Finish(p, "ok")
    /\ UNCHANGED <<phase, indexes, orgs, tenant_clients, client_events, serial, tokens, hist, nextId,
                   opsStarted, docWrites>>

\* Listing or dropping on a dedicated server raises: the exception is logged
\* and delete_organization returns True.
DeleteStorageFailure_restores(p) ==
    /\ pc[p] \in { "d_list", "d_drop" }
    /\ DeleteDb(TheDoc(op[p]))[1] # DefaultServer
    /\ pc' = [pc EXCEPT ![p] = "done"]
    /\ orgs' = orgs \cup op[p].doc
    /\ op' = [op EXCEPT ![p].result = "error",
                        ![p].fault = IF pc[p] = "d_drop" THEN "drop" ELSE "list"]
    /\ UNCHANGED <<phase, indexes, colls, tenant_clients, client_events, serial, tokens, hist,
                   nextId, opsStarted, docWrites>>

DeleteStorageFailure(p) ==
    /\ pc[p] \in { "d_list", "d_drop" }
    /\ DeleteDb(TheDoc(op[p]))[1] # DefaultServer
    /\ pc' = [pc EXCEPT ![p] = "done"]
    /\ op' = [op EXCEPT ![p].result = "ok",
                        ![p].fault = IF pc[p] = "d_drop" THEN "drop" ELSE "list"]
    /\ UNCHANGED <<phase, indexes, orgs, colls, tenant_clients, client_events, serial, tokens, hist,
                   nextId, opsStarted, docWrites>>

DeleteStep(p) ==
    \/ DeleteFindOneAndDelete(p)
    \/ DeleteList(p)
    \/ DeleteDrop(p)
    \/ DeleteStorageFailure(p)

\* ------------------------------------------------------------- admin_login
LoginCall(p) ==
    /\ CanStart(p)
    /\ \E email \in Emails, password \in Passwords \cup NewPasswords :
        op' = [op EXCEPT ![p] = [IdleOp EXCEPT !.kind = "login", !.email = email,
                                               !.password = password]]
    /\ pc' = [pc EXCEPT ![p] = "a_find"]
    /\ opsStarted' = opsStarted + 1
    /\ hist' = HistStart
    /\ UNCHANGED <<phase, indexes, orgs, colls, tenant_clients, client_events, serial, tokens,
                   nextId, docWrites>>

\* doc = await self.org_collection.find_one({"admin.email": email}), then
\* verify_password; on success admin_login signs the token and returns it.
AuthenticateAdmin(p) ==
    /\ pc[p] = "a_find"
    /\ LET found == { r \in orgs : r.email = op[p].email }
       IN  \/ /\ found = {}
              /\ Finish(p, "unauthorized")
              /\ UNCHANGED tokens
           \/ \E doc \in found :
                IF verify_password(op[p].password, doc.password_hash)
                THEN /\ tokens' = tokens \cup {TokenPayload(doc)}
                     /\ pc' = [pc EXCEPT ![p] = "done"]
                     /\ op' = [op EXCEPT ![p].doc = {doc}, ![p].result = "ok",
                                         ![p].token = TokenPayload(doc)]
                ELSE /\ Finish(p, "unauthorized")
                     /\ UNCHANGED tokens
    /\ UNCHANGED <<phase, indexes, orgs, colls, tenant_clients, client_events, serial, hist,
                   nextId, opsStarted, docWrites>>

\* --------------------------------------------------- ensure_org_permission
\* The check the update and delete routes await before they call the
\* service, for a bearer token that verify_token has decoded.
PermissionCall(p) ==
    /\ CanStart(p)
    /\ \E token \in tokens, name \in Names :
        op' = [op EXCEPT ![p] = [IdleOp EXCEPT !.kind = "permission", !.org_name = name,
                                               !.token = token]]
    /\ pc' = [pc EXCEPT ![p] = "p_find"]
    /\ opsStarted' = opsStarted + 1
    /\ hist' = HistStart
    /\ UNCHANGED <<phase, indexes, orgs, colls, tenant_clients, client_events, serial, tokens,
                   nextId, docWrites>>

\* Access is denied when the token's org_id differs from the record's _id
\* and the token's sub differs from the record's admin email.
PermissionDenied(token, org) == token.org_id # org.id /\ token.sub # org.email

\* org = await organization_service.get_organization(org_name)
EnsureOrgPermission(p) ==
    /\ pc[p] = "p_find"
    /\ \/ /\ get_organization(op[p].org_name) = {}
          /\ Finish(p, "not_found")
       \/ \E org \in get_organization(op[p].org_name) :
            /\ pc' = [pc EXCEPT ![p] = "done"]
            /\ op' = [op EXCEPT ![p].doc = {org},
                                ![p].result = IF PermissionDenied(op[p].token, org)
                                              THEN "forbidden" ELSE "ok"]
    /\ UNCHANGED <<phase, indexes, orgs, colls, tenant_clients, client_events, serial, tokens,
                   hist, nextId, opsStarted, docWrites>>


\* --------------------------------------------------------------------- Spec
Step(p) == CreateStep(p) \/ UpdateStep(p) \/ DeleteStep(p) \/ AuthenticateAdmin(p)

\* The application serves requests.
Serve ==
    \/ LifespanShutdown
    \/ TenantWrite
    \/ \E p \in Procs :
        \/ CreateCall(p) \/ UpdateCall(p) \/ DeleteCall(p)
        \/ LoginCall(p)
        \/ Step(p)

Next == LifespanStartup \/ LifespanStartupIndexFailure \/ Serve

\* From a fresh database, through the lifespan.
Spec == Init /\ [][Next]_vars

\* The application has started and ensure_indexes has built both indexes.
InitStarted ==
    /\ phase = "running"
    /\ indexes = { "organization_name", "admin.email" }
    /\ orgs = {}
    /\ colls = <<>>
    /\ tenant_clients = <<>>
    /\ client_events = EmptyBag
    /\ tokens = {}
    /\ pc = [p \in Procs |-> "idle"]
    /\ op = [p \in Procs |-> IdleOp]
    /\ serial = TRUE
    /\ hist = NoHist
    /\ nextId = 1
    /\ opsStarted = 0
    /\ docWrites = 0

SpecStarted == InitStarted /\ [][Serve]_vars

\* A started application with two tenants: the state after
\* create_organization("ab", "a@x.io", ...) and
\* create_organization("c d", "organization_name@x.io", ..., "mongodb://u", "d")
\* have succeeded.
SharedTenantRequest ==
    [IdleOp EXCEPT !.kind = "create", !.org_name = <<"a", "b">>, !.email = "a@x.io",
                   !.password = <<"Passw0rd">>]

DedicatedTenantRequest ==
    [IdleOp EXCEPT !.kind = "create", !.org_name = <<"c", " ", "d">>,
                   !.email = "organization_name@x.io", !.password = <<"Passw0rd">>,
                   !.db_uri = <<"mongodb://u">>, !.db_name = <<"d">>]

InitTenants ==
    /\ phase = "running"
    /\ indexes = { "organization_name", "admin.email" }
    /\ orgs = { OrgMetadata(SharedTenantRequest, 1), OrgMetadata(DedicatedTenantRequest, 2) }
    /\ colls = (CreateKey(SharedTenantRequest) :> EmptyBag)
               @@ (CreateKey(DedicatedTenantRequest) :> EmptyBag)
    /\ tenant_clients = <<>>
    /\ client_events = EmptyBag
    /\ tokens = {}
    /\ pc = [p \in Procs |-> "idle"]
    /\ op = [p \in Procs |-> IdleOp]
    /\ serial = TRUE
    /\ hist = NoHist
    /\ nextId = 3
    /\ opsStarted = 0
    /\ docWrites = 0

SpecTenants == InitTenants /\ [][Serve]_vars

\* N simultaneous create requests for one name, each with its own email, to
\* a started application (test_concurrent_organization_creation): a request
\* is sent while every request sent before it is still in flight.
InitRace ==
    /\ phase = "running"
    /\ indexes = { "organization_name", "admin.email" }
    /\ orgs = {}
    /\ colls = <<>>
    /\ tenant_clients = <<>>
    /\ client_events = EmptyBag
    /\ tokens = {}
    /\ pc = [p \in Procs |-> "idle"]
    /\ op = [p \in Procs |-> IdleOp]
    /\ serial = FALSE
    /\ hist = NoHist
    /\ nextId = 1
    /\ opsStarted = 0
    /\ docWrites = 0

RaceNames ==
    IF \E q \in Procs : op[q].kind = "create"
    THEN { op[q].org_name : q \in { x \in Procs : op[x].kind = "create" } }
    ELSE Names

RaceCreateCall(p) ==
    /\ pc[p] = "idle"
    /\ CreateRequest(p, RaceNames, {TaskEmail(p)})

NextRace == \E p \in Procs : RaceCreateCall(p) \/ CreateStep(p)

SpecRace == InitRace /\ [][NextRace]_vars


\* The connection manager on its own, driven by any caller: get_tenant_db
\* for any organization document, and close_all_connections.  Neither
\* function awaits, so each call is one step.
\* The strings "mongodb://u_x" and "x_d" beside "mongodb://u" and "d".
ManagerUris == Uris \cup { <<"mongodb://u", "_", "x">> }
ManagerDbNames == DbNames \cup { <<"x", "_", "d">> }

ManagerDocs ==
    { [OrgMetadata(SharedTenantRequest, 1) EXCEPT
          !.db_type = t, !.conn_uri = uri, !.conn_db = dbn,
          !.db_name = IF dbn = None THEN MASTER_DB_NAME ELSE dbn] :
        t \in { "shared", "dedicated" }, uri \in ManagerUris \cup {None},
        dbn \in ManagerDbNames \cup {None} }

ManagerCanStart(p) ==
    /\ phase = "running"
    /\ opsStarted < MaxManagerCalls
    /\ \A q \in Procs : Free(q)
    /\ p = 1

GetTenantDbCall(p) ==
    /\ ManagerCanStart(p)
    /\ \E doc \in ManagerDocs :
        /\ tenant_clients' = TenantClientsAfter(tenant_clients, doc)
        /\ client_events' = client_events (+) ClientEventsOf(tenant_clients, doc)
        /\ op' = [op EXCEPT ![p] = [IdleOp EXCEPT !.kind = "get_tenant_db",
                                                  !.doc = {doc}, !.result = "ok"]]
    /\ pc' = [pc EXCEPT ![p] = "done"]
    /\ opsStarted' = opsStarted + 1
    /\ UNCHANGED <<phase, indexes, orgs, colls, serial, tokens, hist, nextId, docWrites>>

CloseAllConnectionsCall(p) ==
    /\ ManagerCanStart(p)
    /\ \E failing \in SUBSET DOMAIN tenant_clients :
        LET r == close_all_connections(tenant_clients, failing)
        IN  /\ tenant_clients' = r.cache
            /\ client_events' = client_events (+) r.events
            /\ op' = [op EXCEPT ![p] =
                        [IdleOp EXCEPT !.kind = "close_all_connections",
                                       !.result = IF r.raised THEN "error" ELSE "ok"]]
    /\ pc' = [pc EXCEPT ![p] = "done"]
    /\ opsStarted' = opsStarted + 1
    /\ UNCHANGED <<phase, indexes, orgs, colls, serial, tokens, hist, nextId, docWrites>>

NextManager == \E p \in Procs : GetTenantDbCall(p) \/ CloseAllConnectionsCall(p)

SpecManager == InitStarted /\ [][NextManager]_vars


\* Requests for the two existing tenants that are not awaited one after the
\* other: a delete and a create are in flight together and interleave at
\* every await.
InitDeleteRace ==
    /\ phase = "running"
    /\ indexes = { "organization_name", "admin.email" }
    /\ orgs = { OrgMetadata(SharedTenantRequest, 1), OrgMetadata(DedicatedTenantRequest, 2) }
    /\ colls = (CreateKey(SharedTenantRequest) :> EmptyBag)
               @@ (CreateKey(DedicatedTenantRequest) :> EmptyBag)
    /\ tenant_clients = <<>>
    /\ client_events = EmptyBag
    /\ tokens = {}
    /\ pc = [p \in Procs |-> "idle"]
    /\ op = [p \in Procs |-> IdleOp]
    /\ serial = FALSE
    /\ hist = NoHist
    /\ nextId = 3
    /\ opsStarted = 0
    /\ docWrites = 0

NextDeleteRace ==
    \E p \in Procs : DeleteCall(p) \/ CreateCall(p) \/ DeleteStep(p) \/ CreateStep(p)

SpecDeleteRace == InitDeleteRace /\ [][NextDeleteRace]_vars


\* A started application and a client that holds an access token: the state
\* after create_organization("ab", "a@x.io", ...), a login with those
\* credentials and delete_organization("ab").  The client presents the token
\* to the permission check of the update and delete routes.
IssuedToken == TokenPayload(OrgMetadata(SharedTenantRequest, 1))

InitTokens ==
    /\ phase = "running"
    /\ indexes = { "organization_name", "admin.email" }
    /\ orgs = {}
    /\ colls = <<>>
    /\ tenant_clients = <<>>
    /\ client_events = EmptyBag
    /\ tokens = {IssuedToken}
    /\ pc = [p \in Procs |-> "idle"]
    /\ op = [p \in Procs |-> IdleOp]
    /\ serial = TRUE
    /\ hist = NoHist
    /\ nextId = 2
    /\ opsStarted = 0
    /\ docWrites = 0

NextTokens == Serve \/ \E p \in Procs : PermissionCall(p) \/ EnsureOrgPermission(p)

SpecTokens == InitTokens /\ [][NextTokens]_vars


\* The migration service on its own: migrate_collection_with_progress from
\* the partition org_ab of master_db, which holds n documents, to org_c_d,
\* with or without a progress callback.
MigrationAmounts ==
    { 0, 1, MigrationBatchSize, MigrationBatchSize + 1, 2 * MigrationBatchSize + 1 }

MigrationSource == OrgMetadata(SharedTenantRequest, 1)

InitMigration ==
    /\ phase = "running"
    /\ indexes = { "organization_name", "admin.email" }
    /\ orgs = {MigrationSource}
    /\ \E n \in MigrationAmounts :
        colls = (PartitionKey(MigrationSource) :>
                    IF n = 0 THEN EmptyBag ELSE DocsOf(<<MigrationSource.id, "orig">>, n))
    /\ tenant_clients = <<>>
    /\ client_events = EmptyBag
    /\ tokens = {}
    /\ pc = [p \in Procs |-> "idle"]
    /\ op = [p \in Procs |-> IdleOp]
    /\ serial = TRUE
    /\ hist = NoHist
    /\ nextId = 2
    /\ opsStarted = 0
    /\ docWrites = 0

MigrationCall(p) ==
    /\ CanStart(p)
    /\ \E callback \in BOOLEAN :
        op' = [op EXCEPT ![p] =
                [IdleOp EXCEPT !.kind = "migrate", !.doc = {MigrationSource},
                               !.org_name = MigrationSource.organization_name,
                               !.new_org_name = DedicatedTenantRequest.org_name,
                               !.callback = callback]]
    /\ pc' = [pc EXCEPT ![p] = "m_count"]
    /\ opsStarted' = opsStarted + 1
    /\ hist' = HistStart
    /\ UNCHANGED <<phase, indexes, orgs, colls, tenant_clients, client_events, serial, tokens,
                   nextId, docWrites>>

\* total_docs = await src_coll.count_documents({})
MigrationCount(p) ==
    /\ pc[p] = "m_count"
    /\ LET n == CountDocuments(colls, OldKey(op[p]))
       IN  Advance(p, [op[p] EXCEPT !.doc_count = n, !.left = BagOf(colls, OldKey(op[p]))],
                   IF n = 0 THEN "done" ELSE "m_batch")
    /\ UNCHANGED <<phase, indexes, orgs, colls, tenant_clients, client_events, serial, tokens,
                   hist, nextId, opsStarted, docWrites>>

\* await dst_coll.insert_many(batch_buffer, ordered=False)
MigrationBatch(p) ==
    /\ pc[p] = "m_batch"
    /\ MigrateBatch(p, NewKey(op[p]), "m_batch", "done")
    /\ UNCHANGED <<phase, indexes, orgs, tenant_clients, client_events, serial, tokens, hist,
                   nextId, opsStarted, docWrites>>

NextMigration == \E p \in Procs : MigrationCall(p) \/ MigrationCount(p) \/ MigrationBatch(p)

SpecMigration == InitMigration /\ [][NextMigration]_vars


\* Requests that resolve tenant databases while other requests are in
\* flight: updates of the admin and connection fields and deletes of the two
\* existing tenants, interleaved at every await.  get_tenant_db has no await:
\* the event loop runs each call of it in one piece, inside the step of the
\* find that precedes it.
NextResolveRace ==
    \E p \in Procs :
        \/ UpdateRequest(p, {None}) \/ DeleteCall(p)
        \/ UpdateFind(p) \/ UpdateProbe(p) \/ UpdateApply(p)
        \/ DeleteStep(p)

SpecResolveRace == InitDeleteRace /\ [][NextResolveRace]_vars


\* ------------------------------------------------------------------- claims
Quiescent == \A p \in Procs : Free(p)

\* The call in slot p has returned and nothing has happened since.
Returned(p, kind) == pc[p] = "done" /\ op[p].kind = kind

ConflictResults == { "conflict_name", "conflict_email", "conflict_other" }

NamesOf(records) == { r.organization_name : r \in records }
EmailsOf(records) == { r.email : r \in records }

\* The storage is what it was when the latest call started.
StorageAsBefore == colls = hist.colls /\ orgs = hist.orgs

\* The concurrent creates that got as far as the metadata insert.
Contenders ==
    { p \in Procs : op[p].kind = "create"
                    /\ op[p].result \notin { "connection_error", "init_error" } }

\* C1: when N >= 2 concurrent creates of one name (each with its own admin
\* email) have all returned, exactly one of those that reached the metadata
\* insert has succeeded and every other one has failed with a conflict.
C1_ExactlyOneConcurrentCreateSucceeds ==
    (Quiescent /\ Cardinality(Contenders) >= 2) =>
        /\ Cardinality({ p \in Contenders : op[p].result = "ok" }) = 1
        /\ \A p \in Contenders : op[p].result \in { "ok" } \cup ConflictResults

C1_Witness ==
    /\ Quiescent
    /\ \E p, q \in Contenders :
        /\ p # q
        /\ op[p].org_name = op[q].org_name
        /\ op[p].email # op[q].email
        /\ op[p].result = "ok"
        /\ op[q].result = "conflict_name"

\* C2: once every call has returned, every directory record with status
\* active has its partition: the collection it names exists in the database
\* its db_type, db_name and connection_details resolve to.
C2_ActiveRecordHasPartition ==
    Quiescent =>
        \A r \in orgs : r.status = "active" => PartitionKey(r) \in DOMAIN colls

\* C3: after application startup no two directory records have the same
\* organization name and no two have the same admin email.
C3_UniqueNameAndEmail ==
    phase # "stopped" =>
        \A r1, r2 \in orgs :
            r1 # r2 => /\ r1.organization_name # r2.organization_name
                       /\ r1.email # r2.email

\* C4: a create for a name that already has a directory record (with an email
\* no record uses, and not failing on its own connection) is rejected with a
\* conflict on the name, and the partitions and their documents are the same
\* after the call as before it.
C4_DuplicateNameCreateLeavesStorage ==
    \A p \in Procs :
        ( /\ Returned(p, "create")
          /\ op[p].org_name \in NamesOf(hist.orgs)
          /\ op[p].email \notin EmailsOf(hist.orgs)
          /\ op[p].result \notin { "connection_error", "init_error" } )
        => op[p].result = "conflict_name" /\ StorageAsBefore

\* C5: when the metadata insert of a create fails with a conflict, the
\* partition the call initialized has been dropped by the time the conflict
\* is returned, for a shared and for a dedicated tenant alike.
C5_ConflictDropsInitializedPartition ==
    \A p \in Procs :
        (Returned(p, "create") /\ op[p].result \in ConflictResults)
        => CreateKey(op[p]) \notin DOMAIN colls

\* C6: a create with a new name but an admin email that another record uses
\* (and not failing on its own connection) fails with a conflict that names
\* the email, and no directory record is added.
C6_DuplicateEmailCreateNamesEmail ==
    \A p \in Procs :
        ( /\ Returned(p, "create")
          /\ op[p].org_name \notin NamesOf(hist.orgs)
          /\ op[p].email \in EmailsOf(hist.orgs)
          /\ op[p].result \notin { "connection_error", "init_error" } )
        => op[p].result = "conflict_email" /\ orgs = hist.orgs

\* C7: organization_exists(name) is false before a successful create of the
\* name and true after it, and it is false after a successful delete of the
\* name, when get_organization finds nothing.
C7_ExistsFollowsCreateAndDelete ==
    \A p \in Procs :
        /\ (Returned(p, "create") /\ op[p].result = "ok")
           => /\ op[p].org_name \notin NamesOf(hist.orgs)
              /\ organization_exists(op[p].org_name)
        /\ (Returned(p, "delete") /\ op[p].result = "ok")
           => /\ op[p].org_name \in NamesOf(hist.orgs)
              /\ ~organization_exists(op[p].org_name)
              /\ get_organization(op[p].org_name) = {}

C7_Witness ==
    \E p \in Procs :
        /\ Returned(p, "delete")
        /\ op[p].result = "ok"
        /\ op[p].org_name \in NamesOf(hist.orgs)
        /\ DOMAIN hist.colls # {}

\* C8: after a successful create, get_organization(name) returns one record;
\* its name and admin email are the ones given, it is dedicated with the
\* given uri and database name when both were given and shared otherwise, and
\* its password field is a hash of the password and not the password.
C8_GetReturnsWhatCreateStored ==
    \A p \in Procs :
        (Returned(p, "create") /\ op[p].result = "ok")
        => /\ Cardinality(get_organization(op[p].org_name)) = 1
           /\ \A r \in get_organization(op[p].org_name) :
                /\ r.organization_name = op[p].org_name
                /\ r.email = op[p].email
                /\ IF IsDedicatedRequest(op[p])
                   THEN /\ r.db_type = "dedicated"
                        /\ r.conn_uri = op[p].db_uri
                        /\ r.conn_db = op[p].db_name
                        /\ r.db_name = op[p].db_name
                   ELSE /\ r.db_type = "shared"
                        /\ r.db_name = MASTER_DB_NAME
                /\ r.password_hash # op[p].password
                /\ verify_password(op[p].password, r.password_hash)

C8_Witness ==
    \E p \in Procs :
        /\ Returned(p, "create")
        /\ op[p].result = "ok"
        /\ IsDedicatedRequest(op[p])
        /\ \E r \in get_organization(op[p].org_name) : r.db_type = "dedicated"

\* C9: a create that returns the connection error of a failed probe is one
\* for a dedicated target, and it has created no partition in any database
\* and written no directory record.
C9_FailedProbeTouchesNoStorage ==
    \A p \in Procs :
        (Returned(p, "create") /\ op[p].result = "connection_error")
        => IsDedicatedRequest(op[p]) /\ StorageAsBefore

C9_Witness ==
    \E p \in Procs :
        /\ Returned(p, "create")
        /\ op[p].result = "connection_error"
        /\ orgs # {}
        /\ DOMAIN colls # {}

\* C10: an update that gives a db_uri whose probe fails leaves the directory
\* record and every partition as they were before the call, also when the
\* call gives a new organization name.
C10_FailedProbeUpdateLeavesStorage ==
    \A p \in Procs :
        (Returned(p, "update") /\ op[p].result = "connection_error")
        => StorageAsBefore

\* The record an update or delete call read, as the directory holds it now.
RecordNow(p) == { r \in orgs : r.id = TheDoc(op[p]).id }

\* The documents of the partition the call's record named when the call started.
DocsBefore(p) ==
    BagOf(hist.colls, CollKey(get_tenant_db(tenant_clients, TheDoc(op[p])),
                              TheDoc(op[p]).collection_name))

\* C11: when an update that gives a db_uri (a switch to a dedicated target)
\* has returned success, the partition the record now names exists and holds
\* the documents the tenant had before the call.
C11_TargetSwitchRelocatesDocuments ==
    \A p \in Procs :
        (Returned(p, "update") /\ op[p].result = "ok" /\ op[p].db_uri # None)
        => \A r \in RecordNow(p) :
            /\ PartitionKey(r) \in DOMAIN colls
            /\ AsCopies(DocsBefore(p)) \sqsubseteq AsCopies(BagOf(colls, PartitionKey(r)))

\* The call met no infrastructure failure: no storage operation raised and
\* no probe found its target down.
NoFailure(p) == op[p].fault = "none" /\ op[p].target \in { "none", "up" }

\* A rename whose new name is the name of another record that existed when
\* the call started.
RenameOntoExisting(p) ==
    /\ Returned(p, "update")
    /\ RenameRequested(op[p])
    /\ op[p].org_name \in NamesOf(hist.orgs)
    /\ op[p].new_org_name \in NamesOf(hist.orgs)

\* C12: a rename whose new name is the name of a different existing record
\* never succeeds: it ends in the name conflict (unless a storage operation
\* or the probe failed first), and afterwards exactly one record has that name.
C12_RenameOntoExistingNameFails ==
    \A p \in Procs :
        RenameOntoExisting(p)
        => /\ op[p].result # "ok"
           /\ NoFailure(p) => op[p].result = "conflict_name"
           /\ Cardinality(get_organization(op[p].new_org_name)) = 1
           /\ Cardinality(get_organization(op[p].org_name)) = 1

C12_Witness ==
    \E p \in Procs :
        /\ RenameOntoExisting(p)
        /\ NoFailure(p)
        /\ op[p].result = "conflict_name"
        /\ orgs = hist.orgs

\* A successful rename of a tenant whose partition existed when the call
\* started, to a name whose partition did not exist then.
RenamedToFreePartition(p) ==
    /\ Returned(p, "update")
    /\ op[p].result = "ok"
    /\ RenameRequested(op[p])
    /\ OldKey(op[p]) \in DOMAIN hist.colls
    /\ NewKey(op[p]) \notin DOMAIN hist.colls

\* C13: after a rename of a tenant with fewer than 10,000 documents inside
\* its database, to a name with no partition, the new partition holds the
\* same documents with the same identity fields (it was renamed, not copied)
\* and no partition with the old name exists.
C13_SmallRenameKeepsDocuments ==
    \A p \in Procs :
        (RenamedToFreePartition(p) /\ op[p].doc_count < RenameThreshold)
        => /\ NewKey(op[p]) \in DOMAIN colls
           /\ BagOf(colls, NewKey(op[p])) = hist.colls[OldKey(op[p])]
           /\ OldKey(op[p]) \notin DOMAIN colls

\* A rename of a tenant with at least 10,000 documents whose relocation ran
\* to its end (no operation on the tenant's server raised).
LargeRenameReturned(p) ==
    /\ Returned(p, "update")
    /\ RenameRequested(op[p])
    /\ op[p].doc_count >= RenameThreshold
    /\ op[p].fault # "storage"

\* C14: a rename of a tenant with at least 10,000 documents takes the batched
\* copy; on return migrated_count + failed_count is the document count, and
\* if every batch insert succeeded the target holds all the documents and the
\* old partition no longer exists.
C14_LargeRenameMigratesAllDocuments ==
    \A p \in Procs :
        LargeRenameReturned(p)
        => /\ op[p].migrated + op[p].failed = op[p].doc_count
           /\ op[p].doc_count = BagCardinality(DocsBefore(p))
           /\ op[p].failed = 0
              => /\ AsCopies(DocsBefore(p)) \sqsubseteq BagOf(colls, NewKey(op[p]))
                 /\ OldKey(op[p]) \notin DOMAIN colls

\* An update of an existing organization that gives its current name as the
\* new name and nothing else.
SameNameRename(p) ==
    /\ Returned(p, "update")
    /\ op[p].new_org_name = op[p].org_name
    /\ op[p].email = NoEmail /\ op[p].password = NoPassword
    /\ op[p].db_uri = None /\ op[p].db_name = None
    /\ op[p].org_name \in NamesOf(hist.orgs)

\* C15: a rename whose new name is the current name returns success and
\* changes nothing: the directory and every partition are as before the call.
C15_SameNameRenameIsNoOp ==
    \A p \in Procs : SameNameRename(p) => op[p].result = "ok" /\ StorageAsBefore

C15_Witness ==
    \E p \in Procs :
        /\ SameNameRename(p)
        /\ op[p].result = "ok"
        /\ \E r \in orgs : r.organization_name = op[p].org_name
                             /\ PartitionKey(r) \in DOMAIN colls

\* An update for a name that had no directory record when the call started.
UpdateOfMissing(p) ==
    /\ Returned(p, "update")
    /\ op[p].org_name \notin NamesOf(hist.orgs)

\* C16: an update or rename for a name that has no directory record fails
\* with not-found and changes neither the directory nor any partition.
C16_UpdateOfMissingIsNotFound ==
    \A p \in Procs :
        UpdateOfMissing(p) => op[p].result = "not_found" /\ StorageAsBefore

C16_Witness ==
    \E p \in Procs :
        /\ UpdateOfMissing(p)
        /\ op[p].result = "not_found"
        /\ RenameRequested(op[p])
        /\ orgs # {}

\* A rename to a free name, with no other field given, during whose
\* relocation an insert of documents into the new partition failed.
RenameWithFailedInsert(p) ==
    /\ Returned(p, "update")
    /\ RenameRequested(op[p])
    /\ op[p].fault = "insert"
    /\ op[p].new_org_name \notin NamesOf(hist.orgs)
    /\ op[p].email = NoEmail /\ op[p].password = NoPassword
    /\ op[p].db_uri = None /\ op[p].db_name = None

\* C17: a failure to insert documents during the relocation of a rename does
\* not abort the rename, on any copy path: the call completes and the record
\* carries the new name and the new partition name.
C17_FailedInsertDoesNotAbortRename ==
    \A p \in Procs :
        RenameWithFailedInsert(p)
        => /\ op[p].result = "ok"
           /\ \A r \in RecordNow(p) :
                /\ r.organization_name = op[p].new_org_name
                /\ r.collection_name = CollectionNameOf(op[p].new_org_name)

\* C18: delete_organization removes the organization record before it tries
\* to drop a dedicated partition; a failing listing or drop is not retried
\* and does not restore the record, the call still returns true; deleting a
\* name with no record returns false and changes nothing.
DeleteFailedToDrop(p) ==
    /\ Returned(p, "delete")
    /\ op[p].fault \in { "list", "drop" }

DeleteOfMissing(p) ==
    /\ Returned(p, "delete")
    /\ op[p].org_name \notin NamesOf(hist.orgs)

C18_DeleteRemovesRecordBeforeDrop ==
    \A p \in Procs :
        /\ (op[p].kind = "delete" /\ pc[p] \in { "d_list", "d_drop" })
           => RecordNow(p) = {}
        /\ DeleteFailedToDrop(p)
           => /\ op[p].result = "ok"
              /\ RecordNow(p) = {}
              /\ orgs = hist.orgs \ op[p].doc
              /\ colls = hist.colls
        /\ DeleteOfMissing(p)
           => /\ op[p].result = "not_found"
              /\ orgs = hist.orgs
              /\ colls = hist.colls

C18_Witness ==
    \E p \in Procs :
        /\ DeleteFailedToDrop(p)
        /\ op[p].fault = "drop"
        /\ op[p].doc # {}
        /\ DeleteKey(op[p]) \in DOMAIN colls

\* C19: resolving the connection of dedicated records with the same
\* (db_uri, db_name) more than once creates exactly one client for that
\* cache key, and the cache holds the entry for the key: every later
\* resolution returns the cached client.
ResolvedKeys == { e[2] : e \in { x \in BagToSet(client_events) : x[1] = "resolved" } }

C19_OneClientPerCacheKey ==
    \A k \in ResolvedKeys :
        /\ CopiesIn(<<"created", k>>, client_events) = 1
        /\ k \in DOMAIN tenant_clients

C19_Witness ==
    \E k \in ResolvedKeys :
        /\ CopiesIn(<<"resolved", k>>, client_events) >= 2
        /\ k \in DOMAIN tenant_clients

\* C20: test_connection never raises: when the server it probes is
\* unreachable or rejects the credentials it returns False, so the calling
\* handler ends with its connection error and never with an unhandled
\* exception; it returns True, and the handler goes on, only when the ping
\* succeeded.
Probed(p) == op[p].target # "none"

C20_ProbeReturnsFalseOnEveryFailure ==
    \A p \in Procs :
        Probed(p)
        => /\ op[p].target # "up"
              => /\ pc[p] = "done"
                 /\ op[p].result = "connection_error"
           /\ (pc[p] # "done" \/ op[p].result # "connection_error")
              => op[p].target = "up"

C20_Witness ==
    \E p \in Procs :
        /\ op[p].kind = "update"
        /\ op[p].target = "auth_failed"
        /\ pc[p] = "done"
        /\ op[p].result = "connection_error"

\* C21: test_connection never adds an entry to the connection cache, and
\* the temporary client it opens has been closed when the call returns,
\* when the ping succeeded and when it failed alike.
TestClientsOpen(db_uri) ==
    CopiesIn(<<"test_created", db_uri>>, client_events)
    - CopiesIn(<<"test_closed", db_uri>>, client_events)

C21_ProbeClosesItsClient ==
    /\ \A uri \in Uris : TestClientsOpen(uri) = 0
    /\ \A k \in DOMAIN tenant_clients : CopiesIn(<<"created", k>>, client_events) >= 1

\* C22: close_all_connections attempts to close every cached client, a
\* close that fails does not raise and does not keep the remaining clients
\* from being closed, and afterwards the cache is empty: the stats report
\* zero connections and no keys.
CloseAttempts(k) ==
    CopiesIn(<<"closed", k>>, client_events) + CopiesIn(<<"close_failed", k>>, client_events)

CreatedKeys == { e[2] : e \in { x \in BagToSet(client_events) : x[1] = "created" } }

C22_CloseAllClosesEveryClient ==
    \A p \in Procs :
        Returned(p, "close_all_connections")
        => /\ op[p].result = "ok"
           /\ get_connection_stats(tenant_clients)
                = [total_connections |-> 0, connection_keys |-> {}]
           /\ \A k \in CreatedKeys :
                CloseAttempts(k) = CopiesIn(<<"created", k>>, client_events)

C22_Witness ==
    \E p \in Procs :
        /\ Returned(p, "close_all_connections")
        /\ opsStarted = 3
        /\ \E k1, k2 \in CreatedKeys :
            /\ k1 # k2
            /\ CopiesIn(<<"close_failed", k1>>, client_events) = 1
            /\ CopiesIn(<<"closed", k2>>, client_events) = 1

\* C23: during graceful shutdown the close-all operation of the connection
\* manager is executed exactly once: after the lifespan has exited, every
\* tenant client that was constructed has been closed once and the cache
\* holds no client.
C23_ShutdownClosesTenantClients ==
    phase = "shutdown" =>
        /\ DOMAIN tenant_clients = {}
        /\ \A k \in CreatedKeys : CloseAttempts(k) = 1

\* C24: authenticate_admin(email, password) returns the tenant's id, name
\* and storage location if and only if some directory record has that admin
\* email and its stored hash is the hash of that password; otherwise it
\* returns None.  After a password or email update only the new credentials
\* authenticate.
CredentialsMatch(email, password) ==
    { r \in orgs : r.email = email /\ r.password_hash = hash_password(password) }

RenameEndedInError(p) ==
    /\ Returned(p, "update")
    /\ RenameRequested(op[p])
    /\ op[p].result \in { "conflict_name", "error" }

DocsOfTenantIn(id, b) == { d \in DOMAIN b : d[1] = id }

C25_FailedRenameLeavesTenantsIntact ==
    \A p \in Procs :
        RenameEndedInError(p)
        => \A r \in RecordNow(p) :
             /\ PartitionKey(r) \in DOMAIN colls
             /\ DocsBefore(p) \sqsubseteq BagOf(colls, PartitionKey(r))
             /\ \A r2 \in orgs \ {r} :
                  PartitionKey(r2) # PartitionKey(r)
                  => DocsOfTenantIn(r.id, BagOf(colls, PartitionKey(r2))) = {}

\* C26: a successful rename to a different name with the same slug (the same
\* partition name) preserves the tenant's documents: after the call the
\* partition the record names exists and holds exactly the documents it held
\* before the call.
RenamedToSameSlug(p) ==
    /\ Returned(p, "update")
    /\ op[p].result = "ok"
    /\ RenameRequested(op[p])
    /\ CollectionNameOf(op[p].new_org_name) = TheDoc(op[p]).collection_name
    /\ OldKey(op[p]) \in DOMAIN hist.colls

C26_SameSlugRenameKeepsDocuments ==
    \A p \in Procs :
        RenamedToSameSlug(p)
        => \A r \in RecordNow(p) :
             /\ PartitionKey(r) \in DOMAIN colls
             /\ BagOf(colls, PartitionKey(r)) = DocsBefore(p)

\* C27: in every reachable state two different directory records never name
\* the same partition of the same database, so that no call on one tenant
\* reads, writes or drops the documents of another.
C27_RecordsNameDistinctPartitions ==
    \A r1, r2 \in orgs : r1 # r2 => PartitionKey(r1) # PartitionKey(r2)

\* C28: when delete(name) runs concurrently with create(name), in every
\* interleaving the final state has no record whose partition the delete
\* dropped: a record of that name, inserted after the delete removed the old
\* record, still has its partition when both calls have returned.
DeleteRemovedARecord(p) == Returned(p, "delete") /\ op[p].doc # {}

C28_DeleteNeverDropsNewPartition ==
    Quiescent =>
        \A p \in Procs :
            DeleteRemovedARecord(p)
            => \A r \in get_organization(op[p].org_name) :
                 PartitionKey(r) \in DOMAIN colls

\* C29: the permission check for organization X accepts a token only if the
\* token was issued for X: for the record that has X's name now (the same
\* _id) and with the admin email that record has now.  A token issued to
\* another organization, or to a record that has since been deleted or has
\* changed its email, does not pass.
C29_PermissionOnlyForIssuedOrganization ==
    \A p \in Procs :
        (Returned(p, "permission") /\ op[p].result = "ok")
        => \A org \in op[p].doc :
             /\ op[p].token.org_id = org.id
             /\ op[p].token.sub = org.email

\* C30: for every rename of a partition with fewer than 10,000 documents the
\* first strategy attempted is the atomic server-side rename, for a tenant on
\* a dedicated database as for a shared one: the old and the new partition
\* are collections of the one database the record resolves to.
StrategyChosen(p) ==
    /\ op[p].kind = "update"
    /\ pc[p] \in { "u_rename", "u_copy", "u_migrate" }

C30_SmallRenameAttemptsAtomicRename ==
    \A p \in Procs :
        (StrategyChosen(p) /\ op[p].doc_count < RenameThreshold)
        => pc[p] = "u_rename"

\* C31: when the atomic rename of the partition fails, for any reason, the
\* rename error is not propagated to the caller: the operation falls back to
\* the batched copy, so no update returns because its rename command raised.
C31_RenameFailureFallsBackToCopy ==
    \A p \in Procs :
        Returned(p, "update") => op[p].fault # "rename"

\* C32: on every batched-copy path (the small copy, the fallback copy and
\* the large migration) a batch whose insert fails is counted as failed, the
\* copy goes on with the next batch and does not raise for that failure.
InsertFailed(p) == op[p].kind = "update" /\ op[p].fault = "insert"

C32_FailedBatchIsCountedNotRaised ==
    \A p \in Procs :
        InsertFailed(p) => op[p].failed > 0 /\ op[p].result # "error"

\* C33: after a batched copy has drained the documents of the source, the
\* source partition is dropped in every case, also when batches have failed,
\* on every copy path: once the relocation block of a rename has run to its
\* end, the old partition does not exist.
RelocationCompleted(p) ==
    /\ Returned(p, "update")
    /\ RenameRequested(op[p])
    /\ op[p].result \notin { "error", "not_found" }

C33_SourceDroppedAfterCopy ==
    \A p \in Procs :
        RelocationCompleted(p) => OldKey(op[p]) \notin DOMAIN colls

C33_Witness ==
    \E p \in Procs :
        /\ RelocationCompleted(p)
        /\ op[p].failed > 0
        /\ op[p].migrated > 0
        /\ OldKey(op[p]) \in DOMAIN hist.colls
        /\ OldKey(op[p]) \notin DOMAIN colls

\* C34: a progress callback given to the migration is invoked after each
\* successfully inserted batch, the last (partial) batch included, with
\* (migrated_so_far, total_count): the reported values increase strictly and
\* the last one equals the final migrated count.
MigrationReturned(p) == Returned(p, "migrate")

C34_CallbackReportsEveryInsertedBatch ==
    \A p \in Procs :
        (MigrationReturned(p) /\ op[p].callback)
        => LET r == op[p].reports
           IN  /\ \A i \in 1 .. Len(r) : r[i][2] = op[p].doc_count
               /\ \A i \in 1 .. Len(r) - 1 : r[i][1] < r[i + 1][1]
               /\ op[p].migrated > 0 => r # <<>> /\ r[Len(r)][1] = op[p].migrated

\* C35: at the end of a batched migration migrated_count is the number of
\* documents of the source that are in the target partition, also when an
\* unordered batch insert failed after inserting a part of its documents.
CopiedInto(p) ==
    BagCardinality(BagOf(colls, NewKey(op[p]))) - BagCardinality(BagOf(hist.colls, NewKey(op[p])))

C35_MigratedCountIsWhatTheTargetHolds ==
    \A p \in Procs :
        MigrationReturned(p) => op[p].migrated = CopiedInto(p)

\* C36: under any interleaving of concurrent get_tenant_db calls for the same
\* (db_uri, db_name), at most one client is created and cached for the key,
\* and every caller gets a database handle of that client.
HoldsTenantHandle(p) ==
    /\ pc[p] \notin { "idle", "done", "u_find", "d_find" }
    /\ op[p].doc # {}
    /\ UsesTenantClient(TheDoc(op[p]))

HandleKey(p) == CacheKey(TheDoc(op[p]).conn_uri, TheDoc(op[p]).conn_db)

C36_ConcurrentResolveCreatesOneClient ==
    /\ \A k \in DOMAIN tenant_clients : CopiesIn(<<"created", k>>, client_events) = 1
    /\ \A p \in Procs :
        HoldsTenantHandle(p)
        => /\ HandleKey(p) \in DOMAIN tenant_clients
           /\ get_tenant_db(tenant_clients, TheDoc(op[p]))
                = <<tenant_clients[HandleKey(p)], TheDoc(op[p]).conn_db>>

C36_Witness ==
    \E p, q \in Procs :
        /\ p # q
        /\ HoldsTenantHandle(p)
        /\ HoldsTenantHandle(q)
        /\ HandleKey(p) = HandleKey(q)
        /\ CopiesIn(<<"resolved", HandleKey(p)>>, client_events) = 2

\* C37: two dedicated records with different (db_uri, db_name) pairs never
\* share a cache entry: the client get_tenant_db returns for a pair was
\* opened to the URI of that pair.
ResolvedDedicated(p) ==
    /\ Returned(p, "get_tenant_db")
    /\ UsesTenantClient(TheDoc(op[p]))

C37_CacheEntryBelongsToItsPair ==
    \A p \in Procs :
        ResolvedDedicated(p)
        => get_tenant_db(tenant_clients, TheDoc(op[p]))[1] = TheDoc(op[p]).conn_uri

\* C38: after a successful delete of a dedicated tenant, the connection
\* cache holds no entry for the (db_uri, db_name) of the deleted record.
DeletedDedicated(p) ==
    /\ Returned(p, "delete")
    /\ op[p].result = "ok"
    /\ op[p].doc # {}
    /\ UsesTenantClient(TheDoc(op[p]))

C38_DeleteEvictsCacheEntry ==
    \A p \in Procs :
        DeletedDedicated(p) /\ Quiescent
        => CacheKey(TheDoc(op[p]).conn_uri, TheDoc(op[p]).conn_db) \notin DOMAIN tenant_clients

\* C39: an update that changes the admin email to one used by another
\* record fails with a conflict that names the email as the colliding field,
\* and the record is left as it was.
EmailOntoExisting(p) ==
    /\ Returned(p, "update")
    /\ op[p].doc # {}
    /\ ~RenameRequested(op[p])
    /\ op[p].email # NoEmail
    /\ op[p].email \in EmailsOf(hist.orgs \ op[p].doc)
    /\ NoFailure(p)

C39_EmailConflictNamesTheEmail ==
    \A p \in Procs :
        EmailOntoExisting(p)
        => /\ op[p].result = "conflict_email"
           /\ RecordNow(p) = op[p].doc

====
